---------------------------- MODULE Spec2Model ----------------------------
(***************************************************************************)
(* The Grafana folder webhook service (src/webhook-service/index.js).      *)
(*                                                                         *)
(* One Express handler, POST /webhook/user-registered, validates the       *)
(* FusionAuth payload and then drives up to four calls against the         *)
(* Grafana API: lookup user, (create user), create folder, set folder      *)
(* permissions.  The handler is an async function: every `await` of an     *)
(* axios call is a suspension point, so the handlers of several requests   *)
(* interleave at the granularity "from one await to the next".  Each       *)
(* action below is one such run-to-completion piece of the handler.        *)
(***************************************************************************)
EXTENDS Naturals, Sequences, FiniteSets, TLC

(***************************************************************************)
(* Bounds of the model.                                                    *)
(***************************************************************************)
NReq == 2                  \* webhook requests in flight at the same time

Reqs == 1..NReq

(***************************************************************************)
(* JavaScript values of the inbound JSON payload.  Every value is a record *)
(* with a type tag t; a property an object does not have is absent from    *)
(* the record's domain.                                                    *)
(***************************************************************************)
Undefined == [t |-> "undefined"]
Null      == [t |-> "null"]
EmptyObj  == [t |-> "object"]
Str(s)    == [t |-> "string", s |-> s]
Num(n)    == [t |-> "number", n |-> n]

\* v.name as JavaScript evaluates it on a non-nullish value: the property
\* when v is an object that has it, undefined otherwise (a primitive has no
\* own property of these names).
Get(v, name) ==
    IF v.t = "object" /\ name \in DOMAIN v THEN v[name] ELSE Undefined

\* ToBoolean: undefined, null, the empty string and 0 are falsy; every
\* object, every non-empty string and every other number is truthy.
Truthy(v) ==
    /\ v.t \notin {"undefined", "null"}
    /\ ~(v.t = "string" /\ v.s = "")
    /\ ~(v.t = "number" /\ v.n = 0)

\* a || b on two values
OrElse(a, b) == IF Truthy(a) THEN a ELSE b

\* ToString, as a template literal `${v}` applies it
ToStr(v) ==
    CASE v.t = "string" -> v.s
      [] v.t = "number" -> ToString(v.n)
      [] v.t = "object" -> "[object Object]"
      [] OTHER          -> v.t

(***************************************************************************)
(* The payloads the identity provider (or anybody else) may post.          *)
(***************************************************************************)
FAUser(email, first, last) ==
    [t |-> "object", email |-> email, firstName |-> first, lastName |-> last]

UserValues ==
    { Null, Str("bob"), EmptyObj,
      [t |-> "object", email |-> Null],
      [t |-> "object", email |-> Str("")],
      FAUser(Str("a@x.io"), Undefined, Undefined),
      FAUser(Str("b@x.io"), Str("Bo"), Str("Li")) }

EventValues ==
    { Null, Str("ping"), EmptyObj } \cup
    { [t |-> "object", user |-> u] : u \in UserValues }

Bodies == { EmptyObj } \cup { [t |-> "object", event |-> e] : e \in EventValues }


(***************************************************************************)
(* Pure pieces of the handler and of its four helpers.                     *)
(***************************************************************************)

\* a variant of line 30 that tests the event alone: if (!event)
InvalidPayload_EventOnly(b) == ~Truthy(Get(b, "event"))

\* line 30: if (!event || !event.user)
InvalidPayload(b) ==
    LET event == Get(b, "event")
    IN  ~Truthy(event) \/ ~Truthy(Get(event, "user"))

\* a variant of line 38 that tests for absence alone: if (userEmail === undefined)
MissingEmail_UndefinedOnly(userEmail) == userEmail = Undefined

\* line 38: if (!userEmail)
MissingEmail(userEmail) == ~Truthy(userEmail)

\* line 68: `${userEmail}'s Dashboards`
folderName(userEmail) == Str(ToStr(userEmail) \o "'s Dashboards")

\* line 127: the lookup URL (path and query; the base URL is configuration)
LookupUrl(email) == "/api/users/lookup?loginOrEmail=" \o ToStr(email)

\* line 222: the permissions URL of a folder
PermissionsUrl(folderUid) == "/api/folders/" \o ToStr(folderUid) \o "/permissions"

\* line 151: `${firstName || ''} ${lastName || ''}`.trim() || email.
\* The two parts carry no outer white space in the payloads of the model, so
\* trimming removes exactly the separating blank next to an empty part.
displayName(userFromFA) ==
    LET f == ToStr(OrElse(Get(userFromFA, "firstName"), Str("")))
        l == ToStr(OrElse(Get(userFromFA, "lastName"), Str("")))
        trimmed == IF f = "" THEN l
                   ELSE IF l = "" THEN f
                   ELSE f \o " " \o l
    IN  OrElse(Str(trimmed), Get(userFromFA, "email"))

\* line 152: Math.random()-built passwords
RandomPasswords == {"k3x9q", "p0w7z"}

\* lines 148-154
userPayload(userFromFA, password) ==
    [ t        |-> "object",
      email    |-> Get(userFromFA, "email"),
      login    |-> Get(userFromFA, "email"),
      name     |-> displayName(userFromFA),
      password |-> Str(password),
      OrgId    |-> Num(1) ]

\* a variant of lines 212-215 that grants the folder owner edit (2), not admin
permissionsPayload_OwnerEdits(userId) ==
    [ items |-> << [userId |-> Num(1), permission |-> Num(4)],
                   [userId |-> userId, permission |-> Num(2)] >> ]

\* lines 206-217
permissionsPayload(userId) ==
    [ items |-> << [userId |-> Num(1), permission |-> Num(4)],
                   [userId |-> userId, permission |-> Num(4)] >> ]

(***************************************************************************)
(* axios.  A response is [status, data]; status 0 stands for "no response" *)
(* (connection refused, timeout).  axios resolves the promise for a 2xx    *)
(* status and rejects it with an Error otherwise.                          *)
(***************************************************************************)
Resolved(resp) == resp.status \in 200..299

ErrMessage(resp) ==
    IF resp.status = 0 THEN "Network Error"
    ELSE "Request failed with status code " \o ToString(resp.status)

Return(v) == [kind |-> "return", value |-> v]
Throw(m)  == [kind |-> "throw", message |-> m]

\* variants of lines 124-143:
\*   the 404 branch returns the body of the error response instead of null
getGrafanaUserByEmail_404AsData(resp) ==
    IF Resolved(resp) \/ resp.status = 404 THEN Return(resp.data)
    ELSE Throw(ErrMessage(resp))
\*   the try block logs the response and forgets to return response.data
getGrafanaUserByEmail_NoReturn(resp) ==
    IF Resolved(resp) THEN Return(Undefined)
    ELSE IF resp.status = 404 THEN Return(Null)
    ELSE Throw(ErrMessage(resp))
\*   the catch block has no 404 branch: every rejection is re-thrown
getGrafanaUserByEmail_Rethrow404(resp) ==
    IF Resolved(resp) THEN Return(resp.data) ELSE Throw(ErrMessage(resp))

\*   the catch block returns null for every rejection, whatever its status
getGrafanaUserByEmail_SwallowAll(resp) ==
    IF Resolved(resp) THEN Return(resp.data) ELSE Return(Null)
\*   the try block insists on a body: an empty 2xx answer is thrown as an error
getGrafanaUserByEmail_RequireBody(resp) ==
    IF Resolved(resp) /\ Truthy(resp.data) THEN Return(resp.data)
    ELSE IF Resolved(resp) THEN Throw("Empty response from Grafana")
    ELSE IF resp.status = 404 THEN Return(Null)
    ELSE Throw(ErrMessage(resp))

\* lines 124-143: 404 is "user not found", every other rejection is re-thrown
getGrafanaUserByEmail(resp) ==
    IF Resolved(resp) THEN Return(resp.data)
    ELSE IF resp.status = 404 THEN Return(Null)
    ELSE Throw(ErrMessage(resp))

\* a variant of lines 169-174 that returns the payload it sent: no id
createGrafanaUser_NoId(payload, resp) ==
    IF ~Resolved(resp) THEN Throw(ErrMessage(resp))
    ELSE Return([ t     |-> "object",
                  email |-> payload.email,
                  login |-> payload.login,
                  name  |-> payload.name ])

\* a variant of lines 175-178 whose catch block only logs, so that the user
\* is returned whatever the answer was
createGrafanaUser_Swallow(payload, resp) ==
    Return([ t     |-> "object",
             id    |-> Get(resp.data, "id"),
             email |-> payload.email,
             login |-> payload.login,
             name  |-> payload.name ])

\* a variant of lines 175-178 with the 404 branch of the lookup copied in:
\* a 404 is not re-thrown
createGrafanaUser_404AsNotFound(payload, resp) ==
    IF Resolved(resp) \/ resp.status = 404
    THEN Return([ t     |-> "object",
                  id    |-> Get(resp.data, "id"),
                  email |-> payload.email,
                  login |-> payload.login,
                  name  |-> payload.name ])
    ELSE Throw(ErrMessage(resp))

\* lines 146-179: the created user "in the same format as lookup".  Reading
\* response.data.id of a null body is a TypeError, thrown inside the try.
createGrafanaUser(payload, resp) ==
    IF ~Resolved(resp) THEN Throw(ErrMessage(resp))
    ELSE IF resp.data.t \in {"undefined", "null"}
    THEN Throw("Cannot read properties of " \o resp.data.t \o " (reading 'id')")
    ELSE Return([ t     |-> "object",
                  id    |-> Get(resp.data, "id"),
                  email |-> payload.email,
                  login |-> payload.login,
                  name  |-> payload.name ])

\* a variant of lines 196-199 whose catch block returns the error body
createGrafanaFolder_Swallow(resp) == Return(resp.data)

\* lines 182-200
createGrafanaFolder(resp) ==
    IF Resolved(resp) THEN Return(resp.data) ELSE Throw(ErrMessage(resp))

\* a variant of lines 230-233 whose catch block only logs
setFolderPermissions_Swallow(resp) == Return(Undefined)

\* a variant of lines 230-233 with the 404 branch of the lookup copied in
setFolderPermissions_404Ok(resp) ==
    IF Resolved(resp) \/ resp.status = 404 THEN Return(Undefined)
    ELSE Throw(ErrMessage(resp))

\* lines 203-234
setFolderPermissions(resp) ==
    IF Resolved(resp) THEN Return(Undefined) ELSE Throw(ErrMessage(resp))

(***************************************************************************)
(* State.                                                                  *)
(*   pc[r]          where the handler of request r is suspended            *)
(*   body[r]        req.body                                               *)
(*   grafanaUser[r],                                                       *)
(*   folder[r]      the handler's locals of the same names                 *)
(*   res[r]         the HTTP responses the handler has sent for r          *)
(*   calls[r]       the axios calls the handler of r has issued, in order  *)
(*   replies[r]     the answers those calls got, in order                  *)
(*   gUsers, gFolders, gPerms   users, folders and folder permissions held *)
(*                  by the Grafana instance behind GRAFANA_API_URL         *)
(***************************************************************************)
VARIABLES pc, body, grafanaUser, folder, res, calls, replies,
          gUsers, gFolders, gPerms

vars == << pc, body, grafanaUser, folder, res, calls, replies,
           gUsers, gFolders, gPerms >>

remote == << gUsers, gFolders, gPerms >>

GrafanaUserRec(id, email, name) ==
    [t |-> "object", id |-> Num(id), email |-> Str(email), login |-> Str(email),
     name |-> Str(name)]

Init ==
    /\ pc          = [r \in Reqs |-> "idle"]
    /\ body        = [r \in Reqs |-> Undefined]
    /\ grafanaUser = [r \in Reqs |-> Undefined]
    /\ folder      = [r \in Reqs |-> Undefined]
    /\ res         = [r \in Reqs |-> << >>]
    /\ calls       = [r \in Reqs |-> << >>]
    /\ replies     = [r \in Reqs |-> << >>]
    /\ gUsers      = { GrafanaUserRec(1, "admin@localhost", "admin"),
                       GrafanaUserRec(2, "a@x.io", "a@x.io") }
    /\ gFolders    = {}
    /\ gPerms      = {}

\* the handler's constants `user` and `userEmail` (lines 35-36)
user(r) == Get(Get(body[r], "event"), "user")

\* a variant of line 36 that keeps userEmail in one module-level variable,
\* which another request overwrites (here: the highest-numbered request
\* that has arrived)
userEmail_Shared(r) ==
    LET arrived == { q \in Reqs : pc[q] # "idle" }
    IN  Get(user(CHOOSE q \in arrived : \A p \in arrived : p <= q), "email")

userEmail(r) == Get(user(r), "email")

Last(s) == s[Len(s)]

(***************************************************************************)
(* What the handler does with its request and response objects.            *)
(***************************************************************************)
\* a variant without `return` in front of res.status(...).json(...): the
\* response goes out and the handler stays where it was
Respond_NoReturn(r, code, payload) ==
    /\ res' = [res EXCEPT ![r] = Append(@, [status |-> code, body |-> payload])]
    /\ pc'  = pc

\* res.status(code).json(payload), and the handler is over
Respond(r, code, payload) ==
    /\ res' = [res EXCEPT ![r] = Append(@, [status |-> code, body |-> payload])]
    /\ pc'  = [pc EXCEPT ![r] = "done"]

\* a variant of line 119 without .status(500): res.json(...) answers 200
CatchError_NoStatus(r, message) ==
    Respond(r, 200, [error |-> "Internal server error", details |-> message])

\* a variant of lines 111-120 that sends nothing and awaits the failed call
\* once more
CatchError_Retry(r, message) ==
    /\ res' = res
    /\ pc'  = [pc EXCEPT ![r] = Last(calls[r]).op]

\* a variant of lines 111-120 that logs the error and sends no response
CatchError_NoResponse(r, message) ==
    /\ res' = res
    /\ pc'  = [pc EXCEPT ![r] = "done"]

\* lines 111-120: the catch block of the handler
CatchError(r, message) ==
    Respond(r, 500, [error |-> "Internal server error", details |-> message])

\* an axios call: the request goes out and the handler awaits the answer
Issue(r, op, method, url, data) ==
    /\ calls' = [calls EXCEPT ![r] =
                    Append(@, [op |-> op, method |-> method, url |-> url, data |-> data])]
    /\ pc'    = [pc EXCEPT ![r] = op]

Answered(r, resp) == replies' = [replies EXCEPT ![r] = Append(@, resp)]

\* a variant of lines 68-72 that deduplicates: it ends the request without a
\* create-folder call when a folder of that title is already there
StartCreateFolder_Dedup(r) ==
    IF \E f \in gFolders : f.title = folderName(userEmail(r))
    THEN /\ calls' = calls
         /\ pc'    = [pc EXCEPT ![r] = "done"]
    ELSE Issue(r, "createFolder", "POST", "/api/folders",
               [t |-> "object", title |-> folderName(userEmail(r))])

\* lines 68-72: Step 2 starts
StartCreateFolder(r) ==
    Issue(r, "createFolder", "POST", "/api/folders",
          [t |-> "object", title |-> folderName(userEmail(r))])

\* lines 97-109: the success summary (processingTime is a clock reading)
SuccessSummary(r) ==
    [ message |-> "Private folder created successfully",
      folder  |-> [ name |-> folderName(userEmail(r)),
                    id   |-> Get(folder[r], "id"),
                    uid  |-> Get(folder[r], "uid") ],
      user    |-> [ email |-> userEmail(r),
                    id    |-> Get(grafanaUser[r], "id") ] ]

(***************************************************************************)
(* The Grafana instance the four axios calls talk to.  Each operator gives *)
(* the answers the call may get, with the platform state that goes with    *)
(* the answer.  A rejected call leaves the platform as it was.             *)
(***************************************************************************)
\* rejections every call may meet: no response, server error; the lookup is
\* also tried with an authentication failure, the three POSTs with a 404
FailStatuses == {0, 500}

ErrorData == [t |-> "object", message |-> Str("error")]

Failures(statuses) ==
    { [resp |-> [status |-> s, data |-> ErrorData],
       users |-> gUsers, folders |-> gFolders, perms |-> gPerms] : s \in statuses }

Unchanged(resp) ==
    [resp |-> resp, users |-> gUsers, folders |-> gFolders, perms |-> gPerms]

MaxId(S) == IF S = {} THEN 0 ELSE CHOOSE n \in S : \A m \in S : m <= n

\* GET /api/users/lookup?loginOrEmail=...: 200 with the user, 404 without.
\* A 200 with an empty body is what a proxy in front of Grafana may answer.
GrafanaLookup(url) ==
    LET hits == { u \in gUsers : url \in {LookupUrl(u.email), LookupUrl(u.login)} }
    IN  { Unchanged([status |-> 200, data |-> u]) : u \in hits }
        \cup (IF hits = {} THEN Failures({404}) ELSE {})
        \cup { Unchanged([status |-> 200, data |-> Str("")]) }
        \cup Failures(FailStatuses \cup {401})

\* POST /api/admin/users: 200 {id, message}; 412 when the login or email is taken
GrafanaCreateUser(p) ==
    LET taken == \E u \in gUsers : u.email = p.email \/ u.login = p.login
        id    == MaxId({ u.id.n : u \in gUsers }) + 1
        new   == [t |-> "object", id |-> Num(id), email |-> p.email,
                  login |-> p.login, name |-> p.name]
    IN  (IF taken THEN Failures({412})
         ELSE { [resp    |-> [status |-> 200,
                              data |-> [t |-> "object", id |-> Num(id),
                                       message |-> Str("User created")]],
                 users   |-> gUsers \cup {new},
                 folders |-> gFolders,
                 perms   |-> gPerms] })
        \cup Failures(FailStatuses \cup {404})

\* POST /api/folders: 200 with the new folder {id, uid, title}
GrafanaCreateFolder(p) ==
    LET id  == MaxId({ f.id.n : f \in gFolders }) + 1
        new == [t |-> "object", id |-> Num(id), uid |-> Str("uid" \o ToString(id)),
                title |-> p.title]
    IN  { [resp    |-> [status |-> 200, data |-> new],
           users   |-> gUsers,
           folders |-> gFolders \cup {new},
           perms   |-> gPerms] }
        \cup { Unchanged([status |-> 200, data |-> Str("")]) }
        \cup Failures(FailStatuses \cup {404})

\* POST /api/folders/:uid/permissions: replaces the folder's permission list
GrafanaSetPermissions(url, p) ==
    LET hits == { f \in gFolders : PermissionsUrl(f.uid) = url }
    IN  { [resp    |-> [status |-> 200,
                        data |-> [t |-> "object",
                                 message |-> Str("Folder permissions updated")]],
           users   |-> gUsers,
           folders |-> gFolders,
           perms   |-> { g \in gPerms : g.uid # f.uid }
                         \cup { [uid |-> f.uid, items |-> p.items] }] : f \in hits }
        \cup Failures(FailStatuses \cup {404})

Platform(o) ==
    /\ gUsers'   = o.users
    /\ gFolders' = o.folders
    /\ gPerms'   = o.perms

(***************************************************************************)
(* The handler of POST /webhook/user-registered, one action per piece      *)
(* between two awaits.                                                     *)
(***************************************************************************)

\* lines 21-50: a request arrives; validation; Step 1 starts with the lookup
HandleWebhook(r) ==
    /\ pc[r] = "idle"
    /\ \E b \in Bodies :
        /\ body' = [body EXCEPT ![r] = b]
        /\ LET u == Get(Get(b, "event"), "user")
               e == Get(u, "email")
           IN  IF InvalidPayload(b)
               THEN /\ Respond(r, 400, [error |-> "Invalid webhook payload"])
                    /\ UNCHANGED calls
               ELSE IF MissingEmail(e)
               THEN /\ Respond(r, 400, [error |-> "User email is required"])
                    /\ UNCHANGED calls
               ELSE /\ Issue(r, "lookup", "GET", LookupUrl(e), Undefined)
                    /\ UNCHANGED res
    /\ UNCHANGED << grafanaUser, folder, replies, remote >>

\* lines 50-72: the lookup returns; the user is taken or created
LookupReturns(r) ==
    /\ pc[r] = "lookup"
    /\ \E o \in GrafanaLookup(Last(calls[r]).url) :
        /\ Platform(o)
        /\ Answered(r, o.resp)
        /\ LET c == getGrafanaUserByEmail(o.resp)
           IN  IF c.kind = "throw"
               THEN /\ CatchError(r, c.message)
                    /\ UNCHANGED << calls, grafanaUser >>
               ELSE IF ~Truthy(c.value)
               THEN /\ \E pw \in RandomPasswords :
                          Issue(r, "createUser", "POST", "/api/admin/users",
                                userPayload(user(r), pw))
                    /\ UNCHANGED << res, grafanaUser >>
               ELSE /\ grafanaUser' = [grafanaUser EXCEPT ![r] = c.value]
                    /\ StartCreateFolder(r)
                    /\ UNCHANGED res
    /\ UNCHANGED << body, folder >>

\* lines 55-72: the create-user call returns
CreateUserReturns(r) ==
    /\ pc[r] = "createUser"
    /\ \E o \in GrafanaCreateUser(Last(calls[r]).data) :
        /\ Platform(o)
        /\ Answered(r, o.resp)
        /\ LET c == createGrafanaUser(Last(calls[r]).data, o.resp)
           IN  IF c.kind = "throw"
               THEN /\ CatchError(r, c.message)
                    /\ UNCHANGED << calls, grafanaUser >>
               ELSE IF ~Truthy(c.value)
               THEN /\ CatchError(r, "Failed to create user in Grafana")
                    /\ UNCHANGED << calls, grafanaUser >>
               ELSE /\ grafanaUser' = [grafanaUser EXCEPT ![r] = c.value]
                    /\ StartCreateFolder(r)
                    /\ UNCHANGED res
    /\ UNCHANGED << body, folder >>

\* lines 72-85: the create-folder call returns; Step 3 starts
CreateFolderReturns(r) ==
    /\ pc[r] = "createFolder"
    /\ \E o \in GrafanaCreateFolder(Last(calls[r]).data) :
        /\ Platform(o)
        /\ Answered(r, o.resp)
        /\ LET c == createGrafanaFolder(o.resp)
           IN  IF c.kind = "throw"
               THEN /\ CatchError(r, c.message)
                    /\ UNCHANGED << calls, folder >>
               ELSE IF ~Truthy(c.value)
               THEN /\ CatchError(r, "Failed to create folder")
                    /\ UNCHANGED << calls, folder >>
               ELSE /\ folder' = [folder EXCEPT ![r] = c.value]
                    /\ Issue(r, "setPermissions", "POST",
                             PermissionsUrl(Get(c.value, "uid")),
                             permissionsPayload(Get(grafanaUser[r], "id")))
                    /\ UNCHANGED res
    /\ UNCHANGED << body, grafanaUser >>

\* lines 85-109: the set-permissions call returns; the success summary
SetPermissionsReturns(r) ==
    /\ pc[r] = "setPermissions"
    /\ \E o \in GrafanaSetPermissions(Last(calls[r]).url, Last(calls[r]).data) :
        /\ Platform(o)
        /\ Answered(r, o.resp)
        /\ LET c == setFolderPermissions(o.resp)
           IN  IF c.kind = "throw"
               THEN CatchError(r, c.message)
               ELSE Respond(r, 200, SuccessSummary(r))
    /\ UNCHANGED << body, grafanaUser, folder, calls >>

Next ==
    \E r \in Reqs :
        \/ HandleWebhook(r)
        \/ LookupReturns(r)
        \/ CreateUserReturns(r)
        \/ CreateFolderReturns(r)
        \/ SetPermissionsReturns(r)

Spec == Init /\ [][Next]_vars

(***************************************************************************)
(* Vocabulary of the properties: what a request has sent and received.     *)
(***************************************************************************)
Count(r, op) == Cardinality({ i \in DOMAIN calls[r] : calls[r][i].op = op })
Issued(r, op) == Count(r, op) > 0

\* the i-th call of r has been answered, and answered with a rejection
Rejected(r, i) == i \in DOMAIN replies[r] /\ ~Resolved(replies[r][i])
\* ... with a 2xx status
Accepted(r, i) == i \in DOMAIN replies[r] /\ Resolved(replies[r][i])

Arrived(r) == pc[r] # "idle"

\* the payload as posted
eventOf(r) == IF "event" \in DOMAIN body[r] THEN body[r].event ELSE Undefined
HasUser(e) == e.t = "object" /\ "user" \in DOMAIN e /\ e.user \notin {Undefined, Null}
HasEmail(u) ==
    u.t = "object" /\ "email" \in DOMAIN u /\ u.email \notin {Undefined, Null, Str("")}

Sent(r, code) == Len(res[r]) = 1 /\ res[r][1].status = code

(***************************************************************************)
(* C1.  A request whose body has no event, or whose event has no user, is  *)
(* answered 400 "Invalid webhook payload" and issues no downstream call.   *)
(***************************************************************************)
C1_InvalidPayloadRejected ==
    \A r \in Reqs :
        (Arrived(r) /\ ~HasUser(eventOf(r))) =>
            /\ pc[r] = "done"
            /\ res[r] = << [status |-> 400, body |-> [error |-> "Invalid webhook payload"]] >>
            /\ calls[r] = << >>

C1_Witness ==
    \E r \in Reqs :
        /\ body[r] = [t |-> "object", event |-> EmptyObj]
        /\ Sent(r, 400)
        /\ \E q \in Reqs : body[q] = EmptyObj /\ Sent(q, 400)

C3_FolderAfterResolvedUser ==
    \A r \in Reqs : \A i \in DOMAIN calls[r] :
        calls[r][i].op = "createFolder" =>
            /\ Truthy(grafanaUser[r])
            /\ \E j \in 1..(i - 1) :
                /\ Accepted(r, j)
                /\ \/ /\ calls[r][j].op = "lookup"
                      /\ Truthy(replies[r][j].data)
                      /\ grafanaUser[r] = replies[r][j].data
                   \/ /\ calls[r][j].op = "createUser"
                      /\ Get(grafanaUser[r], "id") = Get(replies[r][j].data, "id")

C3_Witness ==
    \E r, q \in Reqs :
        /\ Issued(r, "createFolder") /\ Issued(r, "createUser")
        /\ Issued(q, "createFolder") /\ ~Issued(q, "createUser")

(***************************************************************************)
(* C4.  If the create-folder call of a request is rejected, the request    *)
(* answers 500 and issues no set-permissions call.                         *)
(***************************************************************************)
C4_FolderFailureStops ==
    \A r \in Reqs : \A i \in DOMAIN calls[r] :
        (calls[r][i].op = "createFolder" /\ Rejected(r, i)) =>
            /\ pc[r] = "done"
            /\ Sent(r, 500)
            /\ ~Issued(r, "setPermissions")

C4_Witness ==
    \E r \in Reqs : \E i \in DOMAIN calls[r] :
        /\ calls[r][i].op = "createFolder" /\ Rejected(r, i)
        /\ replies[r][i].status = 500
        /\ Sent(r, 500)

(***************************************************************************)
(* C5.  If the set-permissions call is rejected after the create-folder    *)
(* call succeeded, the request answers 500, the folder stays on the        *)
(* platform without the grant, and the request issues no call after the    *)
(* rejected one (no deletion, no second set-permissions).                  *)
(***************************************************************************)
C5_PermissionFailureLeavesFolder ==
    \A r \in Reqs : \A i \in DOMAIN calls[r] :
        (calls[r][i].op = "setPermissions" /\ Rejected(r, i)) =>
            /\ pc[r] = "done"
            /\ Sent(r, 500)
            /\ Accepted(r, i - 1) /\ calls[r][i - 1].op = "createFolder"
            /\ replies[r][i - 1].data \in gFolders
            /\ \A g \in gPerms : g.uid # replies[r][i - 1].data.uid
            /\ Len(calls[r]) = i
            /\ Count(r, "setPermissions") = 1

C5_Witness ==
    \E r \in Reqs : \E i \in DOMAIN calls[r] :
        /\ calls[r][i].op = "setPermissions" /\ Rejected(r, i)
        /\ Sent(r, 500)
        /\ replies[r][i - 1].data \in gFolders

(***************************************************************************)
(* C6.  On a fully successful request the set-permissions call names the   *)
(* folder that the request's own create-folder call returned and the user  *)
(* id that its own lookup or create-user call returned, and the 200        *)
(* response echoes the title "<email>'s Dashboards", the folder's id and   *)
(* uid, the email of the inbound event and that user id.                   *)
(***************************************************************************)
\* On success the calls are lookup, (createUser), createFolder,
\* setPermissions: the last three positions are the same in both shapes.
UserReply(r)   == replies[r][Len(calls[r]) - 2].data
FolderReply(r) == replies[r][Len(calls[r]) - 1].data
PermCall(r)    == calls[r][Len(calls[r])]

C6_SuccessEchoesOwnData ==
    \A r \in Reqs :
        Sent(r, 200) =>
            /\ PermCall(r).op = "setPermissions"
            /\ PermCall(r).url =
                   "/api/folders/" \o FolderReply(r).uid.s \o "/permissions"
            /\ \E k \in DOMAIN PermCall(r).data.items :
                   PermCall(r).data.items[k].userId = UserReply(r).id
            /\ res[r][1].body.message = "Private folder created successfully"
            /\ res[r][1].body.folder =
                   [ name |-> Str(eventOf(r).user.email.s \o "'s Dashboards"),
                     id   |-> FolderReply(r).id,
                     uid  |-> FolderReply(r).uid ]
            /\ res[r][1].body.user =
                   [ email |-> eventOf(r).user.email, id |-> UserReply(r).id ]

C6_Witness ==
    \E r, q \in Reqs :
        /\ Sent(r, 200) /\ Issued(r, "createUser")
        /\ Sent(q, 200) /\ ~Issued(q, "createUser")
        /\ FolderReply(r).id # FolderReply(q).id

(***************************************************************************)
(* C7.  Two concurrent requests that carry different emails do not         *)
(* interfere: each one's calls and response use its own email, its own     *)
(* resolved user and its own folder; the two create-folder titles differ;  *)
(* no set-permissions call or response refers to the other request's       *)
(* folder or user.                                                         *)
(***************************************************************************)
emailOf(r) == eventOf(r).user.email

CallsUseOwnData(r) ==
    \A i \in DOMAIN calls[r] :
        LET c == calls[r][i] IN
        /\ c.op = "lookup" => c.url = "/api/users/lookup?loginOrEmail=" \o emailOf(r).s
        /\ c.op = "createUser" => c.data.email = emailOf(r) /\ c.data.login = emailOf(r)
        /\ c.op = "createFolder" => c.data.title = Str(emailOf(r).s \o "'s Dashboards")
        /\ c.op = "setPermissions" =>
              /\ c.url = "/api/folders/" \o replies[r][i - 1].data.uid.s \o "/permissions"
              /\ c.data.items[2].userId = replies[r][i - 2].data.id

\* what r sent and answered never names the folder or the user of q
NoCrossReference(r, q) ==
    \A i \in DOMAIN replies[q] :
        /\ (calls[q][i].op = "createFolder" /\ Accepted(q, i) /\ Truthy(replies[q][i].data)) =>
              /\ \A j \in DOMAIN calls[r] :
                    calls[r][j].op = "setPermissions" =>
                        calls[r][j].url # PermissionsUrl(replies[q][i].data.uid)
              /\ Sent(r, 200) => res[r][1].body.folder.uid # replies[q][i].data.uid
        /\ (calls[q][i].op \in {"lookup", "createUser"} /\ Accepted(q, i)
                /\ Truthy(replies[q][i].data)) =>
              /\ \A j \in DOMAIN calls[r] :
                    calls[r][j].op = "setPermissions" =>
                        calls[r][j].data.items[2].userId # replies[q][i].data.id
              /\ Sent(r, 200) => res[r][1].body.user.id # replies[q][i].data.id

C7_ConcurrentRequestsIndependent ==
    \A r, q \in Reqs :
        (r # q /\ calls[r] # << >> /\ calls[q] # << >> /\ emailOf(r) # emailOf(q)) =>
            /\ CallsUseOwnData(r)
            /\ NoCrossReference(r, q)
            /\ \A i \in DOMAIN calls[r] : \A j \in DOMAIN calls[q] :
                  (calls[r][i].op = "createFolder" /\ calls[q][j].op = "createFolder") =>
                      calls[r][i].data.title # calls[q][j].data.title

C7_Witness ==
    \E r, q \in Reqs :
        /\ Sent(r, 200) /\ Sent(q, 200)
        /\ emailOf(r) # emailOf(q)
        /\ FolderReply(r).id.n < FolderReply(q).id.n
        /\ Len(replies[r]) > Len(replies[q])

(***************************************************************************)
(* C8.  The steps of a request and the outbound calls each performs.       *)
(* Step 1 (resolve user) is the lookup and the create-user call, step 2    *)
(* the create-folder call, step 3 the set-permissions call.                *)
(***************************************************************************)
StepCalls(r, step) ==
    CASE step = 1 -> Count(r, "lookup") + Count(r, "createUser")
      [] step = 2 -> Count(r, "createFolder")
      [] step = 3 -> Count(r, "setPermissions")

\* the step a request is in, or was in when it ended (0: none was started)
StepReached(r) ==
    IF Issued(r, "setPermissions") THEN 3
    ELSE IF Issued(r, "createFolder") THEN 2
    ELSE IF calls[r] # << >> THEN 1
    ELSE 0

\* C8 as stated: every step a request has started performs exactly one
\* outbound call, also when the lookup reports the user as not found.
C8_OneCallPerStep ==
    \A r \in Reqs : \A step \in 1..StepReached(r) : StepCalls(r, step) = 1

\* the lookup of r was answered "no such user": a 404, or a 2xx without a body
LookupNotFound(r) ==
    /\ replies[r] # << >>
    /\ \/ replies[r][1].status = 404
       \/ Resolved(replies[r][1]) /\ ~Truthy(replies[r][1].data)

\* C8 as the code has it: steps 2 and 3 perform exactly one call each; step 1
\* performs one call, the lookup, unless the lookup reports the user as not
\* found, and then two: the lookup and one create-user call.
C8_CallsPerStep ==
    \A r \in Reqs :
        /\ \A step \in 2..StepReached(r) : StepCalls(r, step) = 1
        /\ StepReached(r) >= 1 =>
              /\ calls[r][1].op = "lookup" /\ Count(r, "lookup") = 1
              /\ Count(r, "createUser") = (IF LookupNotFound(r) THEN 1 ELSE 0)
              /\ StepCalls(r, 1) = (IF LookupNotFound(r) THEN 2 ELSE 1)

C8_Witness ==
    \E r, q \in Reqs :
        /\ StepReached(r) = 3 /\ LookupNotFound(r) /\ StepCalls(r, 1) = 2
        /\ StepReached(q) = 3 /\ ~LookupNotFound(q) /\ StepCalls(q, 1) = 1

(***************************************************************************)
(* C9.  A 404 answer to the lookup is "not found", not an error: the       *)
(* request issues exactly one create-user call for the event's email and,  *)
(* if that call is accepted, goes on to create-folder; it never answers    *)
(* with a "skipped" result and never answers 500 because of the 404.       *)
(***************************************************************************)
C9_NotFoundCreatesUser ==
    \A r \in Reqs :
        (replies[r] # << >> /\ replies[r][1].status = 404) =>
            /\ Len(calls[r]) >= 2
            /\ calls[r][2].op = "createUser"
            /\ calls[r][2].data.email = emailOf(r)
            /\ Count(r, "createUser") = 1
            /\ Accepted(r, 2) => (Len(calls[r]) >= 3 /\ calls[r][3].op = "createFolder")
            /\ \A k \in DOMAIN res[r] :
                  \/ /\ res[r][k].status = 200
                     /\ res[r][k].body.message = "Private folder created successfully"
                     /\ Issued(r, "createFolder") /\ Issued(r, "setPermissions")
                  \/ /\ res[r][k].status = 500
                     /\ Len(replies[r]) >= 2
                     /\ \/ Rejected(r, Len(replies[r]))
                        \/ ~Truthy(replies[r][Len(replies[r])].data)

C9_Witness ==
    \E r \in Reqs :
        /\ replies[r] # << >> /\ replies[r][1].status = 404
        /\ Accepted(r, 2)
        /\ Sent(r, 200)

(***************************************************************************)
(* C10.  A rejection of any downstream call, other than a 404 answer to    *)
(* the lookup, makes the request answer 500 "Internal server error", and   *)
(* the rejected call is the last call the request issues.                  *)
(***************************************************************************)
C10_DownstreamFailureIs500 ==
    \A r \in Reqs : \A i \in DOMAIN replies[r] :
        (Rejected(r, i) /\ ~(calls[r][i].op = "lookup" /\ replies[r][i].status = 404)) =>
            /\ pc[r] = "done"
            /\ Sent(r, 500)
            /\ res[r][1].body.error = "Internal server error"
            /\ Len(calls[r]) = i

C10_Witness ==
    \E r, q \in Reqs :
        /\ Rejected(r, 1) /\ replies[r][1].status = 401 /\ Sent(r, 500)
        /\ Rejected(q, 2) /\ calls[q][2].op = "createUser"
        /\ replies[q][2].status = 0 /\ Sent(q, 500)

(***************************************************************************)
(* C11.  No retries: a request issues each kind of downstream call at most *)
(* once; the first failure (a rejection other than the lookup's 404, or a  *)
(* create-folder answer without a folder) ends it with the 500 response;   *)
(* and a request that has ended never changes again.                       *)
(***************************************************************************)
Ops == {"lookup", "createUser", "createFolder", "setPermissions"}

\* the i-th call of r failed
Failure(r, i) ==
    \/ Rejected(r, i) /\ ~(calls[r][i].op = "lookup" /\ replies[r][i].status = 404)
    \/ Accepted(r, i) /\ calls[r][i].op = "createFolder" /\ ~Truthy(replies[r][i].data)

AtMostOnceAndFailFast ==
    \A r \in Reqs :
        /\ \A op \in Ops : Count(r, op) <= 1
        /\ Len(replies[r]) <= Len(calls[r])
        /\ \A i \in DOMAIN replies[r] :
              Failure(r, i) =>
                  /\ i = Len(replies[r]) /\ i = Len(calls[r])
                  /\ pc[r] = "done"
                  /\ Sent(r, 500)

EndedIsFinal ==
    \A r \in Reqs :
        pc[r] = "done" =>
            /\ pc'[r] = "done"
            /\ calls'[r] = calls[r] /\ replies'[r] = replies[r] /\ res'[r] = res[r]

C11_NoRetries == [] AtMostOnceAndFailFast /\ [][EndedIsFinal]_vars

C11_Witness ==
    \E r, q \in Reqs :
        /\ Failure(r, 1) /\ Sent(r, 500)
        /\ Len(calls[q]) = 3 /\ Failure(q, 3) /\ Sent(q, 500)
        /\ pc[r] = "done" /\ pc[q] = "done"

(***************************************************************************)
(* C12.  The grant list of every set-permissions call holds the fixed      *)
(* administrator (userId 1) and the user the request resolved, both at     *)
(* level 4 (admin), and nothing else.                                      *)
(***************************************************************************)
C12_GrantList ==
    \A r \in Reqs : \A i \in DOMAIN calls[r] :
        calls[r][i].op = "setPermissions" =>
            LET items  == calls[r][i].data.items
                target == replies[r][i - 2].data.id
            IN  /\ { items[k] : k \in DOMAIN items } =
                       { [userId |-> Num(1), permission |-> Num(4)],
                         [userId |-> target, permission |-> Num(4)] }
                /\ target.t = "number"
                /\ \A k \in DOMAIN items :
                       items[k].permission.n = 4 /\ items[k].userId.n \in {1, target.n}

C12_Witness ==
    \E r \in Reqs : \E i \in DOMAIN calls[r] :
        /\ calls[r][i].op = "setPermissions"
        /\ calls[r][i].data.items[2].userId = Num(3)
        /\ \E g \in gPerms : g.items = calls[r][i].data.items

(***************************************************************************)
(* C13.  No deduplication.  When a request q carries the email of a        *)
(* request r that has already answered 200, q starts with the lookup like  *)
(* any other request, and as soon as its user is resolved it issues a      *)
(* create-folder call with the title r used, although r's folder of that   *)
(* title is on the platform.                                               *)
(***************************************************************************)
\* r has succeeded for the email e
SucceededFor(r, e) == Sent(r, 200) /\ emailOf(r) = e

RedeliveryStartsWithLookup ==
    \A q \in Reqs :
        LET b == body'[q]
            e == b.event.user.email
        IN  ( /\ pc[q] = "idle" /\ pc'[q] # "idle"
              /\ "event" \in DOMAIN b /\ HasUser(b.event) /\ HasEmail(b.event.user)
              /\ \E r \in Reqs \ {q} : SucceededFor(r, e) )
            => /\ calls'[q] = << [ op     |-> "lookup",
                                   method |-> "GET",
                                   url    |-> "/api/users/lookup?loginOrEmail=" \o e.s,
                                   data   |-> Undefined ] >>
               /\ res'[q] = << >>

RedeliveryCreatesFolderAgain ==
    \A q \in Reqs :
        LET n == Len(replies'[q]) IN
        ( /\ calls[q] # << >>
          /\ \E r \in Reqs \ {q} : SucceededFor(r, emailOf(q))
          /\ n = Len(replies[q]) + 1
          /\ calls[q][n].op \in {"lookup", "createUser"}
          /\ Resolved(replies'[q][n]) /\ Truthy(replies'[q][n].data) )
        => /\ Len(calls'[q]) = n + 1
           /\ calls'[q][n + 1].op = "createFolder"
           /\ \A r \in Reqs \ {q} :
                 SucceededFor(r, emailOf(q)) =>
                     /\ calls'[q][n + 1].data.title = FolderReply(r).title
                     /\ FolderReply(r) \in gFolders

C13_NoDeduplication ==
    [][RedeliveryStartsWithLookup /\ RedeliveryCreatesFolderAgain]_vars

C13_Witness ==
    \E r, q \in Reqs :
        /\ r # q /\ Sent(r, 200) /\ Sent(q, 200)
        /\ emailOf(r) = emailOf(q)
        /\ Issued(r, "createUser") /\ ~Issued(q, "createUser")
        /\ UserReply(q).id = UserReply(r).id
        /\ FolderReply(r).title = FolderReply(q).title
        /\ FolderReply(r).id.n < FolderReply(q).id.n
        /\ {FolderReply(r), FolderReply(q)} \subseteq gFolders

(***************************************************************************)
(* C14.  Termination.  The assumption "every downstream call eventually    *)
(* returns a response or an error" is weak fairness of the four actions in *)
(* which an awaited call returns: Node resumes the handler as soon as the  *)
(* promise settles.  Nothing is assumed about the arrival of requests.     *)
(***************************************************************************)
EveryCallReturns ==
    \A r \in Reqs :
        /\ WF_vars(LookupReturns(r))
        /\ WF_vars(CreateUserReturns(r))
        /\ WF_vars(CreateFolderReturns(r))
        /\ WF_vars(SetPermissionsReturns(r))

FairSpec == Spec /\ EveryCallReturns

\* a request that has passed validation (its lookup is out) eventually ends
\* with one response, the 200 summary or the 500 error
C14_EventuallyAnswered ==
    \A r \in Reqs :
        (calls[r] # << >>) ~> (pc[r] = "done" /\ (Sent(r, 200) \/ Sent(r, 500)))

C14_Witness ==
    \E r, q \in Reqs :
        /\ calls[r] # << >> /\ pc[r] = "done" /\ Sent(r, 200)
        /\ calls[q] # << >> /\ pc[q] = "done" /\ Sent(q, 500)
        /\ Len(replies[q]) = Len(calls[q])

(***************************************************************************)
(* C15.  Within one request the calls go out one after the other, in the   *)
(* order lookup, (create-user), create-folder, set-permissions: a call is  *)
(* issued only when the call before it has returned without an error (a    *)
(* 2xx answer, or the lookup's 404, which the lookup helper returns as     *)
(* "no user"), so at most one call of a request is outstanding.            *)
(***************************************************************************)
OpsOf(r) == [i \in DOMAIN calls[r] |-> calls[r][i].op]

IsPrefix(s, t) == Len(s) <= Len(t) /\ \A i \in DOMAIN s : s[i] = t[i]

ReturnedWithoutError(r, i) ==
    \/ Accepted(r, i)
    \/ i \in DOMAIN replies[r] /\ calls[r][i].op = "lookup" /\ replies[r][i].status = 404

C15_StrictlySequential ==
    \A r \in Reqs :
        /\ \/ IsPrefix(OpsOf(r), << "lookup", "createUser", "createFolder", "setPermissions" >>)
           \/ IsPrefix(OpsOf(r), << "lookup", "createFolder", "setPermissions" >>)
        /\ Len(calls[r]) - Len(replies[r]) \in {0, 1}
        /\ (Len(calls[r]) = Len(replies[r]) + 1) <=> (pc[r] \in Ops)
        /\ pc[r] \in Ops => pc[r] = Last(calls[r]).op
        /\ \A i \in 2..Len(calls[r]) : ReturnedWithoutError(r, i - 1)

C15_Witness ==
    \E r, q \in Reqs :
        /\ OpsOf(r) = << "lookup", "createUser", "createFolder", "setPermissions" >>
        /\ Len(replies[r]) = 3
        /\ OpsOf(q) = << "lookup", "createFolder", "setPermissions" >>
        /\ Len(replies[q]) = 2

(***************************************************************************)
(* C16.  A create-user call is issued only when the lookup of the same     *)
(* request completed without error and yielded no user: never when the     *)
(* lookup returned a user, never when it failed with a non-404 error.      *)
(***************************************************************************)
C16_CreateUserOnlyWhenNotFound ==
    \A r \in Reqs :
        /\ \A i \in DOMAIN calls[r] :
              calls[r][i].op = "createUser" =>
                  /\ i = 2 /\ calls[r][1].op = "lookup"
                  /\ \/ replies[r][1].status = 404
                     \/ Resolved(replies[r][1]) /\ ~Truthy(replies[r][1].data)
        /\ (Accepted(r, 1) /\ Truthy(replies[r][1].data)) => ~Issued(r, "createUser")
        /\ (Rejected(r, 1) /\ replies[r][1].status # 404) =>
              (~Issued(r, "createUser") /\ Len(calls[r]) = 1)

C16_Witness ==
    \E r, q \in Reqs :
        /\ Issued(r, "createUser") /\ replies[r][1].status = 404
        /\ Rejected(q, 1) /\ replies[q][1].status = 500 /\ pc[q] = "done"

(***************************************************************************)
(* C17.  Only the lookup treats a 404 as "not found": a 404 answer to the  *)
(* create-user, create-folder or set-permissions call ends the request     *)
(* with the 500 response.                                                  *)
(***************************************************************************)
C17_Other404IsFailure ==
    \A r \in Reqs : \A i \in DOMAIN replies[r] :
        (replies[r][i].status = 404 /\ calls[r][i].op # "lookup") =>
            /\ pc[r] = "done"
            /\ Sent(r, 500)
            /\ res[r][1].body.details = "Request failed with status code 404"
            /\ Len(calls[r]) = i

C17_Witness ==
    \E r, q \in Reqs :
        /\ Len(replies[r]) = 2 /\ calls[r][2].op = "createUser"
        /\ replies[r][1].status = 404 /\ replies[r][2].status = 404 /\ Sent(r, 500)
        /\ replies[q] # << >> /\ Last(replies[q]).status = 404
        /\ Last(calls[q]).op = "setPermissions" /\ Sent(q, 500)

(***************************************************************************)
(* C18.  A 200 response is the success summary, and it is sent only when   *)
(* user resolution, create-folder and set-permissions of the same request  *)
(* were all accepted; the platform then holds the grant for the folder.    *)
(***************************************************************************)
C18_SuccessOnlyAfterAllSteps ==
    \A r \in Reqs : \A k \in DOMAIN res[r] :
        res[r][k].status = 200 =>
            LET n == Len(calls[r]) IN
            /\ "message" \in DOMAIN res[r][k].body
            /\ res[r][k].body.message = "Private folder created successfully"
            /\ n \in {3, 4} /\ Len(replies[r]) = n
            /\ calls[r][n].op = "setPermissions" /\ Accepted(r, n)
            /\ calls[r][n - 1].op = "createFolder" /\ Accepted(r, n - 1)
            /\ Truthy(replies[r][n - 1].data)
            /\ calls[r][n - 2].op \in {"lookup", "createUser"} /\ Accepted(r, n - 2)
            /\ Truthy(replies[r][n - 2].data)
            /\ \E g \in gPerms :
                  /\ g.uid = replies[r][n - 1].data.uid
                  /\ g.items = calls[r][n].data.items

C18_Witness ==
    \E r \in Reqs :
        /\ Sent(r, 200)
        /\ res[r][1].body.message = "Private folder created successfully"
        /\ \E g \in gPerms : g.uid = FolderReply(r).uid
        /\ \E q \in Reqs : Sent(q, 500) /\ Last(calls[q]).op = "setPermissions"

(***************************************************************************)
(* C19.  A request sends at most one response, exactly one once its        *)
(* handler has ended, with status 400, 200 or 500; after the response no   *)
(* call is outstanding and the request issues no further call.             *)
(***************************************************************************)
OneResponse ==
    \A r \in Reqs :
        /\ Len(res[r]) <= 1
        /\ (pc[r] = "done") <=> (Len(res[r]) = 1)
        /\ \A k \in DOMAIN res[r] : res[r][k].status \in {400, 200, 500}
        /\ res[r] # << >> => Len(replies[r]) = Len(calls[r])

NothingAfterResponse ==
    \A r \in Reqs :
        res[r] # << >> => (calls'[r] = calls[r] /\ res'[r] = res[r])

C19_ExactlyOneResponse == [] OneResponse /\ [][NothingAfterResponse]_vars

C19_Witness ==
    \E r, q \in Reqs :
        /\ Sent(r, 400) /\ pc[r] = "done" /\ calls[r] = << >>
        /\ Sent(q, 200) /\ pc[q] = "done" /\ Len(calls[q]) = 4

(***************************************************************************)
(* C20.  A lookup answered with a 2xx status and an empty body is handled  *)
(* like a 404: the request issues a create-user call for the event's       *)
(* email; it neither goes on with the empty result nor fails on it.        *)
(***************************************************************************)
\* the create-user calls the handler issues for the payload of r
CreateUserCalls(r) ==
    { [ op     |-> "createUser",
        method |-> "POST",
        url    |-> "/api/admin/users",
        data   |-> [ t        |-> "object",
                     email    |-> emailOf(r),
                     login    |-> emailOf(r),
                     name     |-> displayName(eventOf(r).user),
                     password |-> Str(pw),
                     OrgId    |-> Num(1) ] ] : pw \in RandomPasswords }

NoUserAnswer(r) ==
    /\ replies[r] # << >>
    /\ \/ replies[r][1].status = 404
       \/ Accepted(r, 1) /\ ~Truthy(replies[r][1].data)

C20_EmptyLookupIsNotFound ==
    \A r \in Reqs :
        /\ NoUserAnswer(r) =>
              /\ Len(calls[r]) >= 2
              /\ calls[r][2] \in CreateUserCalls(r)
              /\ Len(replies[r]) = 1 => (pc[r] = "createUser" /\ res[r] = << >>
                                          /\ grafanaUser[r] = Undefined)
        /\ (Accepted(r, 1) /\ ~Truthy(replies[r][1].data) /\ Len(replies[r]) >= 3) =>
              grafanaUser[r].id = replies[r][2].data.id

C20_Witness ==
    \E r, q \in Reqs :
        /\ Accepted(r, 1) /\ replies[r][1].data = Str("")
        /\ Len(calls[r]) = 4 /\ Sent(r, 200)
        /\ replies[q] # << >> /\ replies[q][1].status = 404
        /\ emailOf(q) = emailOf(r) /\ calls[q][2].data.name = calls[r][2].data.name

=============================================================================
